---- MODULE Spec2Model ----
(***************************************************************************)
(* Model of pkg/operator/operator.go: Operator.Start and                   *)
(* Operator.ensureDefaultClusterIngress.                                   *)
(*                                                                         *)
(* Start runs on one control thread.  It ensures the default               *)
(* ClusterIngress, then for each cache of o.caches spawns a goroutine that *)
(* calls cache.Start(stop) and blocks in cache.WaitForCacheSync(stop), and *)
(* finally hands control to manager.Start(stop).  The goroutines, the      *)
(* caches' synchronization loops, the remote store and the owner of the    *)
(* stop channel run concurrently with the control thread; each of their    *)
(* steps is an action of its own.                                          *)
(***************************************************************************)
EXTENDS Integers, Sequences, FiniteSets, TLC

\* ------------------------------------------------------------------ bounds
\* Number of caches in o.caches (New registers one; Start ranges over any).
NumCaches == 3
\* Number of operator processes that share the remote store.
NumProcs == 2
\* Number of times one process invokes ensureDefaultClusterIngress
\* (a first start and its restarts).
MaxRuns == 2

Caches == 1..NumCaches
Procs == 1..NumProcs

\* The process whose Start is followed step by step (the receiver o).
Self == 1

\* ------------------------------------------------------------------- state
VARIABLES
  store,      \* remote store: the set of ClusterIngress objects it holds
  store0,     \* the store as it was when the processes came up
  inv,        \* per process: outcomes of its ensureDefaultClusterIngress calls
  pc,         \* control thread of Start: where it is
  idx,        \* position of the range loop in o.caches
  cacheVar,   \* the loop variable `cache` (0: not yet assigned)
  result,     \* what Start returned ("none": has not returned)
  stop,       \* the stop channel has been closed
  stopAt,     \* Start when stop was closed: <<pc, cacheVar, awaited cache synced>>
  gor,        \* per loop iteration: state of the goroutine spawned in it
  gorCache,   \* per goroutine: the cache it called Start on (0: none yet)
  cst,        \* per cache: state of its synchronization loop
  synced,     \* per cache: the initial listing has been applied
  startCount, \* per cache: number of cache.Start invocations
  waitRes,    \* per cache: outcome of Start's WaitForCacheSync on it
  mgr,        \* primary manager (dispatch loop)
  listeners,  \* kinds whose informer of the ingress cache is watched, in order
  fate        \* per cache: whether its initial listing is ever applied

vars == <<store, store0, inv, pc, idx, cacheVar, result, stop, stopAt, gor,
          gorCache, cst, synced, startCount, waitRes, mgr, listeners, fate>>

\* ------------------------------------------------------------ remote store
DefaultName == "default"
Contents == {"default", "modified"}

\* The object manifestFactory.DefaultClusterIngress() builds.
DefaultObj == [name |-> DefaultName, content |-> "default"]

DefaultObjects(s) == {o \in s : o.name = DefaultName}
DefaultCount(s) == Cardinality(DefaultObjects(s))

InitialStores == {{}} \cup {{[name |-> DefaultName, content |-> c]} : c \in Contents}

\* client.Create: create-if-absent on the object's name; a transport fault
\* leaves the store alone and reports a remote error.
Create(s, obj, fault) ==
  IF fault THEN [store |-> s, err |-> "RemoteError"]
  ELSE IF \E o \in s : o.name = obj.name
       THEN [store |-> s, err |-> "AlreadyExists"]
       ELSE [store |-> s \cup {obj}, err |-> "nil"]

\* manifestFactory.DefaultClusterIngress(): the object, or an error.
DefaultClusterIngress(factoryOk) ==
  IF factoryOk THEN [obj |-> DefaultObj, err |-> "nil"]
  ELSE [obj |-> DefaultObj, err |-> "FactoryError"]

\* errors.IsAlreadyExists(err)
IsAlreadyExists_Never(err) == FALSE

IsAlreadyExists(err) == err = "AlreadyExists"

\* ensureDefaultClusterIngress with a delete-and-recreate on AlreadyExists.
ensureDefaultClusterIngress_Recreate(s, factoryOk, fault) ==
  LET ci == DefaultClusterIngress(factoryOk) IN
  IF ci.err # "nil"
  THEN [store |-> s, err |-> ci.err, resp |-> "NoCall", calls |-> <<>>]
  ELSE LET r == Create(s, ci.obj, fault) IN
       IF IsAlreadyExists(r.err)
       THEN [store |-> (s \ DefaultObjects(s)) \cup {ci.obj}, err |-> "nil",
             resp |-> "nil", calls |-> <<"create", "delete", "create">>]
       ELSE [store |-> r.store, err |-> r.err, resp |-> r.err,
             calls |-> <<"create">>]

\* ensureDefaultClusterIngress with an update on AlreadyExists.
ensureDefaultClusterIngress_Update(s, factoryOk, fault) ==
  LET ci == DefaultClusterIngress(factoryOk) IN
  IF ci.err # "nil"
  THEN [store |-> s, err |-> ci.err, resp |-> "NoCall", calls |-> <<>>]
  ELSE LET r == Create(s, ci.obj, fault) IN
       IF IsAlreadyExists(r.err)
       THEN [store |-> (s \ DefaultObjects(s)) \cup {ci.obj}, err |-> "nil",
             resp |-> r.err, calls |-> <<"create", "update">>]
       ELSE [store |-> r.store, err |-> r.err, resp |-> r.err,
             calls |-> <<"create">>]

\* ensureDefaultClusterIngress: the store afterwards, the error returned,
\* the response of the create ("NoCall": none was issued) and the remote
\* calls issued.
ensureDefaultClusterIngress(s, factoryOk, fault) ==
  LET ci == DefaultClusterIngress(factoryOk) IN
  IF ci.err # "nil"
  THEN [store |-> s, err |-> ci.err, resp |-> "NoCall", calls |-> <<>>]
  ELSE LET r == Create(s, ci.obj, fault) IN
       [store |-> r.store,
        err   |-> IF r.err # "nil" /\ ~IsAlreadyExists(r.err) THEN r.err ELSE "nil",
        resp  |-> r.err,
        calls |-> <<"create">>]

\* The record kept of one invocation: its inputs (a transport fault only
\* where a create was issued) and what it did.
Outcome(e, factoryOk, fault) ==
  [factoryOk |-> factoryOk, fault |-> factoryOk /\ fault, err |-> e.err, resp |-> e.resp,
   calls |-> e.calls]

\* ----------------------------------------------------------------- initial
\* The kinds New watches on the ingress cache, in the order of its loop.
Kinds == <<"Deployment", "Service">>

\* What is the same however the operator came to be: nothing of Start has
\* run.
InitStart ==
  /\ store \in InitialStores
  /\ store0 = store
  /\ inv = [p \in Procs |-> <<>>]
  /\ idx = 1
  /\ cacheVar = 0
  /\ result = "none"
  /\ stop = FALSE
  /\ stopAt = <<"none", 0, FALSE>>
  /\ gor = [i \in Caches |-> "none"]
  /\ gorCache = [i \in Caches |-> 0]
  /\ cst = [c \in Caches |-> "idle"]
  /\ synced = [c \in Caches |-> FALSE]
  /\ startCount = [c \in Caches |-> 0]
  /\ waitRes = [c \in Caches |-> "none"]
  /\ mgr = "idle"

\* The controller's event sources after New went through its loop with
\* every Watch accepted: one per kind, in the order of the loop.
AllWatched == [i \in 1..Len(Kinds) |-> [kind |-> Kinds[i], watched |-> TRUE]]

\* The operator as New returned it: both informers watched, Start not yet
\* called.
Init ==
  /\ InitStart
  /\ pc = "init"
  /\ listeners = AllWatched
  /\ fate = [i \in Caches |-> <<i, TRUE>>]

\* ------------------------------------------------- Start: the ensure step
\* Start that goes on to the caches whatever the ensure step returned.
StartEnsure_IgnoreErr(factoryOk, fault) ==
  /\ pc = "init"
  /\ LET e == ensureDefaultClusterIngress(store, factoryOk, fault) IN
       /\ store' = e.store
       /\ inv' = [inv EXCEPT ![Self] = Append(@, Outcome(e, factoryOk, fault))]
       /\ pc' = "loop"
       /\ result' = result
  /\ UNCHANGED <<listeners, fate, store0, idx, cacheVar, stop, stopAt, gor, gorCache, cst, synced,
                 startCount, waitRes, mgr>>

\* Start, lines 132-134: ensure the default cluster ingress; an error ends
\* Start with "failed to ensure default cluster ingress".
StartEnsure(factoryOk, fault) ==
  /\ pc = "init"
  /\ LET e == ensureDefaultClusterIngress(store, factoryOk, fault) IN
       /\ store' = e.store
       /\ inv' = [inv EXCEPT ![Self] = Append(@, Outcome(e, factoryOk, fault))]
       /\ IF e.err # "nil"
          THEN pc' = "failed" /\ result' = "ErrEnsure"
          ELSE pc' = "loop" /\ result' = result
  /\ UNCHANGED <<listeners, fate, store0, idx, cacheVar, stop, stopAt, gor, gorCache, cst, synced,
                 startCount, waitRes, mgr>>

\* ------------------------------------------------ Start: the cache loop
\* A WaitForCacheSync on a cache that has no informer to wait for: true
\* can be returned without the cache having been started.
WaitForCacheSync_NoInformers(c, stopCh) ==
  {TRUE} \cup {FALSE : x \in {1} \cap (IF stopCh THEN {1} ELSE {})}

\* The values cache.WaitForCacheSync(stopCh) can return on cache c: true
\* once c has synced, false once stopCh is closed.  When both hold either
\* may be returned (the poll and the stop channel race).
WaitForCacheSync(c, stopCh) ==
  {TRUE : x \in {1} \cap (IF synced[c] THEN {1} ELSE {})}
    \cup {FALSE : x \in {1} \cap (IF stopCh THEN {1} ELSE {})}

\* A loop body that spawns the Start goroutines of all caches before the
\* first wait.
LoopIter_StartAll ==
  /\ pc = "loop"
  /\ idx <= NumCaches
  /\ cacheVar' = idx
  /\ gor' = [i \in Caches |-> IF gor[i] = "none" THEN "spawned" ELSE gor[i]]
  /\ waitRes' = [waitRes EXCEPT ![idx] = "waiting"]
  /\ pc' = "wait"
  /\ UNCHANGED <<listeners, fate, store, store0, inv, idx, result, stop, stopAt, gorCache, cst, synced,
                 startCount, mgr>>

\* Start, lines 137-145: one iteration of the range loop up to the point
\* where it blocks: assign the loop variable, spawn the goroutine that
\* will call cache.Start(stop), call cache.WaitForCacheSync(stop).
LoopIter ==
  /\ pc = "loop"
  /\ idx <= NumCaches
  /\ cacheVar' = idx
  /\ gor' = [gor EXCEPT ![idx] = "spawned"]
  /\ waitRes' = [waitRes EXCEPT ![idx] = "waiting"]
  /\ pc' = "wait"
  /\ UNCHANGED <<listeners, fate, store, store0, inv, idx, result, stop, stopAt, gorCache, cst, synced,
                 startCount, mgr>>

\* A true wait that ends the loop: only the first registered cache is
\* waited for.
WaitForCacheSyncTrue_ExitLoop ==
  /\ pc = "wait"
  /\ TRUE \in WaitForCacheSync(cacheVar, stop)
  /\ waitRes' = [waitRes EXCEPT ![cacheVar] = "true"]
  /\ idx' = NumCaches + 1
  /\ pc' = "loop"
  /\ UNCHANGED <<listeners, fate, store, store0, inv, cacheVar, result, stop, stopAt, gor, gorCache,
                 cst, synced, startCount, mgr>>

\* Start, lines 145-149: WaitForCacheSync returns true; "cache synced" is
\* logged and the loop goes to the next cache.
WaitForCacheSyncTrue ==
  /\ pc = "wait"
  /\ TRUE \in WaitForCacheSync(cacheVar, stop)
  /\ waitRes' = [waitRes EXCEPT ![cacheVar] = "true"]
  /\ idx' = idx + 1
  /\ pc' = "loop"
  /\ UNCHANGED <<listeners, fate, store, store0, inv, cacheVar, result, stop, stopAt, gor, gorCache,
                 cst, synced, startCount, mgr>>

\* A false wait that is skipped over: the loop goes on to the next cache.
WaitForCacheSyncFalse_Continue ==
  /\ pc = "wait"
  /\ FALSE \in WaitForCacheSync(cacheVar, stop)
  /\ waitRes' = [waitRes EXCEPT ![cacheVar] = "false"]
  /\ idx' = idx + 1
  /\ pc' = "loop"
  /\ UNCHANGED <<listeners, fate, store, store0, inv, cacheVar, result, stop, stopAt, gor, gorCache,
                 cst, synced, startCount, mgr>>

\* A false wait that leaves the loop with break instead of return.
WaitForCacheSyncFalse_Break ==
  /\ pc = "wait"
  /\ FALSE \in WaitForCacheSync(cacheVar, stop)
  /\ waitRes' = [waitRes EXCEPT ![cacheVar] = "false"]
  /\ idx' = NumCaches + 1
  /\ pc' = "loop"
  /\ UNCHANGED <<listeners, fate, store, store0, inv, cacheVar, result, stop, stopAt, gor, gorCache,
                 cst, synced, startCount, mgr>>

\* A wait that is handed a channel that is never closed instead of stop.
WaitForCacheSyncFalse_NilStop ==
  /\ pc = "wait"
  /\ FALSE \in WaitForCacheSync(cacheVar, FALSE)
  /\ waitRes' = [waitRes EXCEPT ![cacheVar] = "false"]
  /\ pc' = "failed"
  /\ result' = "ErrSync"
  /\ UNCHANGED <<listeners, fate, store, store0, inv, idx, cacheVar, stop, stopAt, gor, gorCache, cst,
                 synced, startCount, mgr>>

\* Start, lines 145-147: WaitForCacheSync returns false; Start returns
\* "failed to sync cache".
WaitForCacheSyncFalse ==
  /\ pc = "wait"
  /\ FALSE \in WaitForCacheSync(cacheVar, stop)
  /\ waitRes' = [waitRes EXCEPT ![cacheVar] = "false"]
  /\ pc' = "failed"
  /\ result' = "ErrSync"
  /\ UNCHANGED <<listeners, fate, store, store0, inv, idx, cacheVar, stop, stopAt, gor, gorCache, cst,
                 synced, startCount, mgr>>

\* --------------------------------------------------- the Start goroutines
\* A closure that captured the first cache of o.caches.
CapturedCache_First(g) == 1

\* The cache the goroutine of iteration g calls Start on: the closure
\* refers to the loop variable, so it is the variable's value at the time
\* the goroutine runs, not at the time it was spawned.
CapturedCache(g) == cacheVar

\* Goroutine, line 139: call cache.Start(stop).  The call starts the
\* cache's informers and blocks; informers handed a stop channel that is
\* already closed do not run ("halted").
GoroutineCallStart(g) ==
  /\ gor[g] = "spawned"
  /\ LET c == CapturedCache(g) IN
       /\ gorCache' = [gorCache EXCEPT ![g] = c]
       /\ startCount' = [startCount EXCEPT ![c] = @ + 1]
       /\ cst' = [cst EXCEPT ![c] = IF @ # "idle" THEN @
                                     ELSE IF stop THEN "halted" ELSE "running"]
  /\ gor' = [gor EXCEPT ![g] = "inStart"]
  /\ UNCHANGED <<listeners, fate, store, store0, inv, pc, idx, cacheVar, result, stop, stopAt, synced,
                 waitRes, mgr>>

\* A cache.Start that is handed a channel of its own, which nobody closes,
\* instead of stop.
CacheStartReturnsNil_OtherStop(g) ==
  /\ gor[g] = "inStart"
  /\ LET stopCh == FALSE IN stopCh
  /\ cst' = [cst EXCEPT ![gorCache[g]] = IF @ \in {"running", "halted"} THEN "stopped" ELSE @]
  /\ gor' = [gor EXCEPT ![g] = "done"]
  /\ UNCHANGED <<listeners, fate, store, store0, inv, pc, idx, cacheVar, result, stop, stopAt, gorCache,
                 synced, startCount, waitRes, mgr>>

\* Goroutine, line 139: cache.Start returns nil once stop is closed; the
\* goroutine ends.
CacheStartReturnsNil(g) ==
  /\ gor[g] = "inStart"
  /\ stop
  /\ cst' = [cst EXCEPT ![gorCache[g]] = IF @ \in {"running", "halted"} THEN "stopped" ELSE @]
  /\ gor' = [gor EXCEPT ![g] = "done"]
  /\ UNCHANGED <<listeners, fate, store, store0, inv, pc, idx, cacheVar, result, stop, stopAt, gorCache,
                 synced, startCount, waitRes, mgr>>

\* A goroutine that, on an error of cache.Start, closes the stop channel
\* itself to bring the operator down.
CacheStartReturnsErr_ClosesStop(g) ==
  /\ gor[g] = "inStart"
  /\ cst' = [cst EXCEPT ![gorCache[g]] = IF @ \in {"running", "halted"} THEN "failed" ELSE @]
  /\ gor' = [gor EXCEPT ![g] = "logged"]
  /\ stop' = TRUE
  /\ UNCHANGED <<listeners, fate, store, store0, inv, pc, idx, cacheVar, result, stopAt, gorCache,
                 synced, startCount, waitRes, mgr>>

\* Goroutine, lines 139-142: cache.Start returns an error; the goroutine
\* logs "cache stopped with error" and ends.  Nothing else is told.
CacheStartReturnsErr(g) ==
  /\ gor[g] = "inStart"
  /\ cst' = [cst EXCEPT ![gorCache[g]] = IF @ \in {"running", "halted"} THEN "failed" ELSE @]
  /\ gor' = [gor EXCEPT ![g] = "logged"]
  /\ UNCHANGED <<listeners, fate, store, store0, inv, pc, idx, cacheVar, result, stop, stopAt, gorCache,
                 synced, startCount, waitRes, mgr>>

\* A running cache applies its initial listing: synchronized flips to true,
\* once.  A listing in flight when stop is closed can still be applied.
CacheSync(c) ==
  /\ cst[c] = "running"
  /\ ~synced[c]
  /\ synced' = [synced EXCEPT ![c] = TRUE]
  /\ UNCHANGED <<listeners, fate, store, store0, inv, pc, idx, cacheVar, result, stop, stopAt, gor,
                 gorCache, cst, startCount, waitRes, mgr>>

\* ------------------------------------------------ Start: the manager
\* A manager.Start that is reached from inside the loop, whatever caches
\* are still to come.
ManagerStart_Early ==
  /\ pc = "loop"
  /\ idx > 1
  /\ pc' = "dispatch"
  /\ mgr' = "running"
  /\ UNCHANGED <<listeners, fate, store, store0, inv, idx, cacheVar, result, stop,
                 stopAt, gor, gorCache, cst, synced, startCount, waitRes>>

\* A Start that ensures the default cluster ingress a second time on its
\* way into manager.Start.
ManagerStart_Reensure ==
  /\ pc = "loop"
  /\ idx > NumCaches
  /\ LET e == ensureDefaultClusterIngress(store, TRUE, FALSE) IN
       /\ store' = e.store
       /\ inv' = [inv EXCEPT ![Self] = Append(@, Outcome(e, TRUE, FALSE))]
  /\ pc' = "dispatch"
  /\ mgr' = "running"
  /\ UNCHANGED <<listeners, fate, store0, idx, cacheVar, result, stop, stopAt, gor, gorCache,
                 cst, synced, startCount, waitRes>>

\* Start, line 152: the loop is over; enter manager.Start(stop).
ManagerStart ==
  /\ pc = "loop"
  /\ idx > NumCaches
  /\ pc' = "dispatch"
  /\ mgr' = "running"
  /\ UNCHANGED <<listeners, fate, store, store0, inv, idx, cacheVar, result, stop, stopAt, gor, gorCache,
                 cst, synced, startCount, waitRes>>

\* Start, line 152: manager.Start returns nil after stop was closed, and
\* Start returns that.
ManagerReturnsNil ==
  /\ pc = "dispatch"
  /\ stop
  /\ pc' = "stopped"
  /\ mgr' = "returned"
  /\ result' = "nil"
  /\ UNCHANGED <<listeners, fate, store, store0, inv, idx, cacheVar, stop, stopAt, gor, gorCache, cst,
                 synced, startCount, waitRes>>

\* Start, line 152: manager.Start returns an error, and Start returns that.
ManagerReturnsErr ==
  /\ pc = "dispatch"
  /\ pc' = "stopped"
  /\ mgr' = "returned"
  /\ result' = "ManagerError"
  /\ UNCHANGED <<listeners, fate, store, store0, inv, idx, cacheVar, stop, stopAt, gor, gorCache, cst,
                 synced, startCount, waitRes>>

\* The owner of the stop channel closes it, once.
FireStop ==
  /\ ~stop
  /\ stop' = TRUE
  /\ stopAt' = <<pc, cacheVar, pc = "wait" /\ synced[cacheVar]>>
  /\ UNCHANGED <<listeners, fate, store, store0, inv, pc, idx, cacheVar, result, gor, gorCache,
                 cst, synced, startCount, waitRes, mgr>>

\* ----------------------------------------------------------- specification
Next ==
  \/ \E factoryOk \in BOOLEAN, fault \in BOOLEAN : StartEnsure(factoryOk, fault)
  \/ LoopIter
  \/ WaitForCacheSyncTrue
  \/ WaitForCacheSyncFalse
  \/ \E g \in Caches : GoroutineCallStart(g)
  \/ \E g \in Caches : CacheStartReturnsNil(g)
  \/ \E g \in Caches : CacheStartReturnsErr(g)
  \/ \E c \in Caches : CacheSync(c)
  \/ ManagerStart
  \/ ManagerReturnsNil
  \/ ManagerReturnsErr
  \/ FireStop

Spec == Init /\ [][Next]_vars

\* -------------------------------------- ensure run by several processes
\* One invocation of ensureDefaultClusterIngress by process p, at its start
\* or at a restart.  Its one remote call is atomic at the store.
EnsureInvoke(p, factoryOk, fault) ==
  /\ Len(inv[p]) < MaxRuns
  /\ LET e == ensureDefaultClusterIngress(store, factoryOk, fault) IN
       /\ store' = e.store
       /\ inv' = [inv EXCEPT ![p] = Append(@, Outcome(e, factoryOk, fault))]
  /\ UNCHANGED <<listeners, fate, store0, pc, idx, cacheVar, result, stop, stopAt, gor, gorCache, cst,
                 synced, startCount, waitRes, mgr>>

NextEnsure ==
  \E p \in Procs, factoryOk \in BOOLEAN, fault \in BOOLEAN :
    EnsureInvoke(p, factoryOk, fault)

SpecEnsure == Init /\ [][NextEnsure]_vars

\* ----------------------------------------------------------------- fairness
\* The control thread takes its next step when it can: a wait whose exit
\* condition holds returns at its next poll, the loop proceeds, and
\* manager.Start returns once stop is closed.  A spawned goroutine is
\* scheduled, and a cache.Start whose stop channel is closed returns.  No
\* fairness is assumed of the owner of stop, of a cache's syncing or of
\* failures.
Fairness ==
  /\ WF_vars(LoopIter)
  /\ WF_vars(WaitForCacheSyncTrue \/ WaitForCacheSyncFalse)
  /\ WF_vars(ManagerStart)
  /\ WF_vars(ManagerReturnsNil)
  /\ \A g \in Caches : WF_vars(GoroutineCallStart(g))
  /\ \A g \in Caches : WF_vars(CacheStartReturnsNil(g))

FairSpec == Spec /\ Fairness

\* ------------------------------------------------------------------ New
\* New has not run: no event source, nothing of Start.
InitNew ==
  /\ InitStart
  /\ pc = "new"
  /\ listeners = <<>>
  /\ fate = [i \in Caches |-> <<i, TRUE>>]

\* A Watch that can be issued at any time, New returned or not.
NewWatch_Again(ok) ==
  /\ pc # "newFailed"
  /\ Len(listeners) <= Len(Kinds)
  /\ listeners' = Append(listeners, [kind |-> Kinds[1], watched |-> ok])
  /\ UNCHANGED <<fate, store, store0, inv, pc, idx, cacheVar, result, stop, stopAt, gor,
                 gorCache, cst, synced, startCount, waitRes, mgr>>

\* New, lines 104-113: one iteration of the loop over Deployment and
\* Service: GetInformer succeeds and operatorController.Watch is called
\* on the informer.  The error Watch returns is discarded, so the loop
\* goes on whether or not the event source was accepted.
NewWatch(ok) ==
  /\ pc = "new"
  /\ Len(listeners) < Len(Kinds)
  /\ listeners' = Append(listeners, [kind |-> Kinds[Len(listeners) + 1], watched |-> ok])
  /\ UNCHANGED <<fate, store, store0, inv, pc, idx, cacheVar, result, stop, stopAt, gor,
                 gorCache, cst, synced, startCount, waitRes, mgr>>

\* New, lines 66-102 and 108-111: a constructor or GetInformer fails; New
\* returns nil and the error, and there is no Operator to start.
NewFails ==
  /\ pc = "new"
  /\ Len(listeners) < Len(Kinds)
  /\ pc' = "newFailed"
  /\ UNCHANGED <<listeners, fate, store, store0, inv, idx, cacheVar, result, stop, stopAt, gor,
                 gorCache, cst, synced, startCount, waitRes, mgr>>

\* New, lines 115-124: the loop is over; New returns the Operator, whose
\* Start can now be called.
NewReturn ==
  /\ pc = "new"
  /\ Len(listeners) = Len(Kinds)
  /\ pc' = "init"
  /\ UNCHANGED <<listeners, fate, store, store0, inv, idx, cacheVar, result, stop, stopAt, gor,
                 gorCache, cst, synced, startCount, waitRes, mgr>>

NextNew ==
  \/ \E ok \in BOOLEAN : NewWatch(ok)
  \/ NewFails
  \/ NewReturn
  \/ Next

SpecNew == InitNew /\ [][NextNew]_vars

\* ------------------------------------- the store's other writers
\* Somebody else (the reconciling controller, an administrator) deletes
\* the default cluster ingress.
ExternalDelete ==
  /\ DefaultObjects(store) # {}
  /\ store' = store \ DefaultObjects(store)
  /\ UNCHANGED <<listeners, fate, store0, inv, pc, idx, cacheVar, result, stop, stopAt, gor,
                 gorCache, cst, synced, startCount, waitRes, mgr>>

\* Somebody else changes the content of the default cluster ingress.
ExternalUpdate(c) ==
  /\ DefaultObjects(store) # {}
  /\ store' = (store \ DefaultObjects(store)) \cup {[name |-> DefaultName, content |-> c]}
  /\ store' # store
  /\ UNCHANGED <<listeners, fate, store0, inv, pc, idx, cacheVar, result, stop, stopAt, gor,
                 gorCache, cst, synced, startCount, waitRes, mgr>>

NextStore ==
  \/ Next
  \/ ExternalDelete
  \/ \E c \in Contents : ExternalUpdate(c)

SpecStore == Init /\ [][NextStore]_vars

\* ------------------------------- registration order and sync outcomes
\* The orders in which a set of caches can be registered in o.caches.
Orders == {p \in [Caches -> Caches] : \A c \in Caches : \E i \in Caches : p[i] = c}

\* o.caches holds the caches in some order, and each cache has its sync
\* outcome whatever its place: fate[i] is <<cache, outcome>> of entry i.
InitOrder ==
  /\ InitStart
  /\ pc = "init"
  /\ listeners = AllWatched
  /\ \E p \in Orders, out \in [Caches -> BOOLEAN] :
       fate = [i \in Caches |-> <<p[i], out[p[i]]>>]

\* An entry whose cache syncs applies its listing.
CacheSyncFated(i) == fate[i][2] /\ CacheSync(i)

\* The cache.Start of an entry whose cache fails to sync may end in an
\* error.
CacheStartErrFated(g) ==
  /\ gor[g] = "inStart"
  /\ ~fate[gorCache[g]][2]
  /\ CacheStartReturnsErr(g)

\* WaitForCacheSync returns false only once stop is closed: the sync of
\* an entry fails when the owner closes stop during the wait for it.  The
\* owner also closes stop to end the dispatch loop.
StopFated ==
  /\ \/ pc = "dispatch"
     \/ pc = "wait" /\ ~fate[cacheVar][2]
  /\ FireStop

NextOrder ==
  \/ StartEnsure(TRUE, FALSE)
  \/ LoopIter
  \/ WaitForCacheSyncTrue
  \/ WaitForCacheSyncFalse
  \/ \E g \in Caches : GoroutineCallStart(g)
  \/ \E g \in Caches : CacheStartReturnsNil(g)
  \/ \E g \in Caches : CacheStartErrFated(g)
  \/ \E i \in Caches : CacheSyncFated(i)
  \/ ManagerStart
  \/ ManagerReturnsNil
  \/ StopFated

\* Every cache reaches its outcome: one that syncs does so once started,
\* and the wait for one that fails is ended by stop.
FairnessOrder ==
  /\ Fairness
  /\ \A i \in Caches : WF_vars(CacheSyncFated(i))
  /\ WF_vars(StopFated)

FairSpecOrder == InitOrder /\ [][NextOrder]_vars /\ FairnessOrder

\* ------------------------------------------------------------------ claims
\* Outcomes of all ensure invocations made so far, as <<process, run>>.
Invocations == {pk \in Procs \X (1..MaxRuns) : pk[2] <= Len(inv[pk[1]])}
OutcomeOf(pk) == inv[pk[1]][pk[2]]
\* An invocation whose factory and whose create met no injected failure.
FaultFree(o) == o.factoryOk /\ ~o.fault
\* Number of creates the store accepted.
NumCreated == Cardinality({pk \in Invocations : OutcomeOf(pk).resp = "nil"})

\* C1 (sync barrier): the dispatch loop (manager.Start) is entered only in
\* a state where WaitForCacheSync has returned true for every cache of
\* o.caches, and every cache has synced.
C1_SyncBarrier ==
  mgr # "idle" => \A c \in Caches : waitRes[c] = "true" /\ synced[c]

C1_Witness ==
  pc = "dispatch" /\ \A c \in Caches : waitRes[c] = "true"

\* C2 (idempotent ensure): once a process has run ensure twice in sequence,
\* the second run against a store that answers create-if-absent, from any
\* initial store, the store holds exactly one default object and the second
\* run returned no error.
C2_IdempotentEnsure ==
  \A p \in Procs :
    (Len(inv[p]) >= 2 /\ FaultFree(inv[p][2]))
      => DefaultCount(store) = 1 /\ inv[p][2].err = "nil"

C2_Witness ==
  \E p \in Procs :
    /\ Len(inv[p]) = 2
    /\ store0 = {}
    /\ inv[p][1].resp = "nil"
    /\ inv[p][2].resp = "AlreadyExists"
    /\ inv[p][2].err = "nil"
    /\ DefaultCount(store) = 1

\* C3 (ensure does not overwrite): a step taken while the store holds a
\* default object leaves the store as it is; an ensure run by that step
\* issued at most the one create, and when the create was answered
\* AlreadyExists it returned no error.
C3_NoOverwrite ==
  [][DefaultObjects(store) # {} =>
       /\ store' = store
       /\ \A p \in Procs :
            inv'[p] # inv[p] =>
              LET o == inv'[p][Len(inv'[p])] IN
                /\ o.calls \in {<<>>, <<"create">>}
                /\ o.resp = "AlreadyExists" => o.err = "nil"]_vars

C3_Witness ==
  \E p \in Procs :
    /\ Len(inv[p]) >= 1
    /\ inv[p][1].resp = "AlreadyExists"
    /\ inv[p][1].err = "nil"
    /\ store0 = {[name |-> DefaultName, content |-> "modified"]}
    /\ store = store0

C5_SyncFailureBlocks ==
  (\E c \in Caches : waitRes[c] = "false")
    => pc = "failed" /\ result = "ErrSync" /\ mgr = "idle"

C5_Witness ==
  /\ NumCaches >= 3
  /\ waitRes[1] = "true"
  /\ waitRes[2] = "false"
  /\ result = "ErrSync"
  /\ mgr = "idle"

\* C6 (ensure failure aborts startup): when the manifest factory failed or
\* the create returned an error other than AlreadyExists, Start has
\* returned "failed to ensure default cluster ingress", no goroutine was
\* spawned, no cache.Start and no WaitForCacheSync was invoked, and the
\* dispatch loop was not entered.
C6_EnsureFailureAborts ==
  (Len(inv[Self]) >= 1 /\
     (~inv[Self][1].factoryOk \/ inv[Self][1].resp \notin {"nil", "AlreadyExists", "NoCall"}))
    => /\ pc = "failed"
       /\ result = "ErrEnsure"
       /\ \A c \in Caches :
            gor[c] = "none" /\ startCount[c] = 0 /\ cst[c] = "idle" /\ waitRes[c] = "none"
       /\ mgr = "idle"

C6_Witness ==
  /\ Len(inv[Self]) = 1
  /\ inv[Self][1].resp = "RemoteError"
  /\ result = "ErrEnsure"
  /\ pc = "failed"

\* Stop was closed while Start was blocked in WaitForCacheSync on a cache
\* that had not synced.
StoppedWhileBlocked == stopAt[1] = "wait" /\ ~stopAt[3]

C8_Original ==
  (pc = "wait" /\ cst[cacheVar] = "failed" /\ ~synced[cacheVar])
    ~> (pc = "failed" /\ result = "ErrSync")

\* C9 as claimed (start all, then wait): whenever Start is waiting for the
\* sync of an entry, the start of every entry of o.caches has been issued.
C9_Original ==
  pc = "wait" => \A c \in Caches : gor[c] # "none"

\* C9 as amended: starts and waits are interleaved entry by entry.  While
\* Start waits on an entry, the start goroutine of that entry and of every
\* earlier entry has been spawned, the wait of every earlier entry has
\* returned true, and no later entry has had its start spawned or invoked.
C9_InterleavedStartWait ==
  pc = "wait" =>
    /\ cacheVar = idx
    /\ \A c \in Caches : c <= idx => gor[c] # "none"
    /\ \A c \in Caches : c < idx => waitRes[c] = "true"
    /\ \A c \in Caches : c > idx => gor[c] = "none" /\ startCount[c] = 0 /\ cst[c] = "idle"

C9_Witness ==
  /\ pc = "wait"
  /\ idx >= 2
  /\ idx < NumCaches
  /\ gor[idx] # "none"
  /\ gor[idx + 1] = "none"

\* C10 (start at most once per cache): cache.Start is invoked at most once
\* on each cache of o.caches.
C10_StartAtMostOnce ==
  \A c \in Caches : startCount[c] <= 1

C10_Witness ==
  /\ \A c \in Caches : startCount[c] = 1
  /\ \A g \in Caches : gor[g] # "none" /\ gor[g] # "spawned"

\* The state of the startup state machine Start is in.  CachesStarting
\* spans the range loop from its first go statement to its last wait; a
\* Start that returned an error is Failed.
Phase ==
  CASE pc = "init" -> "Init"
    [] pc = "loop" /\ idx = 1 -> "DefaultEnsured"
    [] pc = "loop" /\ idx > 1 /\ idx <= NumCaches -> "CachesStarting"
    [] pc = "wait" -> "CachesStarting"
    [] pc = "loop" /\ idx > NumCaches -> "CachesSynced"
    [] pc = "dispatch" -> "Dispatching"
    [] pc = "stopped" /\ result = "nil" -> "Stopped"
    [] pc = "stopped" /\ result # "nil" -> "Failed"
    [] pc = "failed" -> "Failed"
    [] OTHER -> "Constructing"

\* The successor of each state on the path of a Start that does not fail.
PhaseSucc ==
  {<<"Init", "DefaultEnsured">>, <<"DefaultEnsured", "CachesStarting">>,
   <<"CachesStarting", "CachesSynced">>, <<"CachesSynced", "Dispatching">>,
   <<"Dispatching", "Stopped">>}

\* C11 (startup state machine): every step of Start stays in its state,
\* moves to the next state of Init -> DefaultEnsured -> CachesStarting ->
\* CachesSynced -> Dispatching -> Stopped, or moves to Failed; Failed and
\* Stopped are never left; and a cache has its start spawned or invoked
\* only after the ensure step has issued its create.
C11_StartupStateMachine ==
  /\ [][\/ Phase' = Phase
        \/ <<Phase, Phase'>> \in PhaseSucc
        \/ Phase' = "Failed" /\ Phase \notin {"Stopped", "Failed"}]_vars
  /\ []((\E c \in Caches : gor[c] # "none" \/ startCount[c] > 0)
          => Len(inv[Self]) = 1 /\ inv[Self][1].calls = <<"create">>)

C11_Witness ==
  /\ Phase = "Stopped"
  /\ \A c \in Caches : waitRes[c] = "true" /\ startCount[c] = 1
  /\ inv[Self][1].calls = <<"create">>

\* C12 (sequential ordered waiting): the caches Start has called
\* WaitForCacheSync on form a prefix of o.caches; every one before the
\* last has returned true; at most one wait is pending, and it is the one
\* Start is blocked in; once a wait has returned false Start has returned
\* and no wait is pending or issued on a later cache.
C12_SequentialOrderedWaiting ==
  /\ \A c \in Caches : waitRes[c] # "none" => \A d \in Caches : d < c => waitRes[d] = "true"
  /\ \A c \in Caches : waitRes[c] = "waiting" => pc = "wait" /\ cacheVar = c /\ idx = c
  /\ Cardinality({c \in Caches : waitRes[c] = "waiting"}) <= 1
  /\ \A c \in Caches :
       waitRes[c] = "false" =>
         /\ pc = "failed"
         /\ \A d \in Caches : d # c => waitRes[d] \in {"true", "none"}
         /\ \A d \in Caches : d > c => waitRes[d] = "none"

C12_Witness ==
  /\ NumCaches >= 3
  /\ waitRes[1] = "true"
  /\ waitRes[2] = "false"
  /\ waitRes[3] = "none"
  /\ pc = "failed"

\* The sync outcome of a cache, wherever it is registered.
SyncOutcome(c) == fate[CHOOSE i \in Caches : fate[i][1] = c][2]
AllSync == \A c \in Caches : SyncOutcome(c)

\* C13 (registration order independence): whatever the order of the
\* caches in o.caches, the result of Start depends only on the caches'
\* sync outcomes: the dispatch loop is entered only if all caches sync and
\* then is entered; Start returns "failed to sync cache" only if some
\* cache fails and then does return it.
C13_OrderIndependence ==
  /\ [](mgr # "idle" => AllSync)
  /\ [](pc = "failed" => result = "ErrSync" /\ ~AllSync)
  /\ (AllSync /\ pc = "loop") ~> (pc = "dispatch")
  /\ (~AllSync /\ pc = "loop") ~> (pc = "failed" /\ result = "ErrSync" /\ mgr = "idle")

\* A failing cache registered last, the others first and synced.
C13_Witness ==
  /\ NumCaches >= 2
  /\ fate[1][1] # 1
  /\ \A i \in Caches : fate[i][2] <=> i < NumCaches
  /\ \A i \in Caches : i < NumCaches => waitRes[i] = "true"
  /\ waitRes[NumCaches] = "false"
  /\ result = "ErrSync"

\* C14 (shutdown): when stop is closed while Start is in manager.Start,
\* manager.Start returns, Start returns what manager.Start returned, and
\* every goroutine's cache.Start returns and the goroutine ends; the
\* channel they all observe is the one stop: a nil return of manager.Start
\* or of a cache.Start happens only with stop closed.
C14_Shutdown ==
  /\ (stopAt[1] = "dispatch")
       ~> (/\ pc = "stopped"
           /\ mgr = "returned"
           /\ \A g \in Caches : gor[g] \in {"done", "logged"})
  /\ [](pc = "stopped" => mgr = "returned" /\ result \in {"nil", "ManagerError"})
  /\ [](pc = "stopped" /\ result = "nil" => stop)
  /\ [](\A g \in Caches : gor[g] = "done" => stop)

C14_Witness ==
  /\ stopAt[1] = "dispatch"
  /\ pc = "stopped"
  /\ result = "nil"
  /\ \A g \in Caches : gor[g] = "done" /\ cst[g] = "stopped"

\* Something of a cache.Start has happened: a goroutine that will call
\* it was spawned, or it was called.
SomeCacheStart == \E c \in Caches : gor[c] # "none" \/ startCount[c] > 0 \/ cst[c] # "idle"

\* C15 (listeners before start): every step that adds an event source is
\* a step of New, taken when no goroutine of Start exists and no
\* cache.Start was called; once anything of a cache.Start has happened
\* New has returned with its loop over both kinds complete, and the event
\* sources do not change any more.
C15_ListenersBeforeStart ==
  /\ [][listeners' # listeners => pc = "new" /\ pc' = "new" /\ ~SomeCacheStart]_vars
  /\ [](SomeCacheStart =>
          /\ pc \notin {"new", "newFailed"}
          /\ Len(listeners) = Len(Kinds)
          /\ \A i \in 1..Len(Kinds) : listeners[i].kind = Kinds[i])
  /\ [][SomeCacheStart => listeners' = listeners]_vars

C15_Witness ==
  /\ pc = "dispatch"
  /\ Len(listeners) = Len(Kinds)
  /\ \A i \in 1..Len(Kinds) : listeners[i].watched
  /\ \A c \in Caches : cst[c] = "running" /\ synced[c]

\* C16 as claimed (default resource lifecycle): once Start is past its
\* ensure step it has issued exactly one remote call for the default
\* cluster ingress, a create.
C16_Original ==
  pc # "init" => Len(inv[Self]) = 1 /\ inv[Self][1].calls = <<"create">>

\* C16 as amended: Start runs the ensure step once and first; the step
\* issues one create, or no call at all when the manifest factory failed,
\* and never a delete or an update; after the step this core issues no
\* further call for the default cluster ingress, so an object that is
\* removed from the store is not brought back by it.
C16_DefaultLifecycle ==
  /\ [](pc = "init" => inv[Self] = <<>>)
  /\ [](pc # "init" =>
          /\ Len(inv[Self]) = 1
          /\ inv[Self][1].calls = IF inv[Self][1].factoryOk THEN <<"create">> ELSE <<>>)
  /\ [][pc # "init" => inv' = inv]_vars
  /\ [][pc # "init" /\ DefaultObjects(store) = {} => DefaultObjects(store') = {}]_vars

\* The ensure step created the object, it was removed afterwards, and Start
\* ran to its end without it coming back.
C16_Witness ==
  /\ Len(inv[Self]) = 1
  /\ inv[Self][1].resp = "nil"
  /\ DefaultObjects(store) = {}
  /\ pc = "stopped"
  /\ result = "nil"

\* The goroutine of iteration g has called cache.Start.
Called(g) == gor[g] \in {"inStart", "done", "logged"}

\* C17 (closure capture): the goroutine spawned in iteration g calls
\* Start on the cache of iteration g and on no other, whenever it is
\* scheduled: the loop variable it reads still holds that cache, because
\* the loop does not go on before that cache has synced; so each cache is
\* started by its own goroutine and by that alone, and every goroutine
\* spawned does come to start its cache.
C17_ClosureCapture ==
  /\ [](\A g \in Caches : IF Called(g) THEN gorCache[g] = g ELSE gorCache[g] = 0)
  /\ [](\A c \in Caches : startCount[c] = IF Called(c) THEN 1 ELSE 0)
  /\ [](\A g \in Caches : gor[g] = "spawned" => cacheVar = g)
  /\ \A g \in Caches : (gor[g] = "spawned") ~> (Called(g) /\ gorCache[g] = g)

\* The loop has gone through all caches and is blocked on the last one,
\* whose goroutine is the last to be scheduled.
C17_Witness ==
  /\ pc = "wait"
  /\ cacheVar = NumCaches
  /\ NumCaches >= 2
  /\ \A g \in Caches : Called(g) /\ gorCache[g] = g
  /\ ~synced[NumCaches]

\* C18 (interleaved start/wait): at all times, a cache on which
\* cache.Start was invoked, or whose goroutine was spawned, has every
\* earlier cache's WaitForCacheSync returned true; and when the wait on a
\* cache has returned false, no later cache has had its goroutine spawned
\* or its Start invoked, then or afterwards.
C18_NoStartBeforePriorSync ==
  /\ \A c \in Caches :
       (startCount[c] > 0 \/ gor[c] # "none" \/ cst[c] # "idle")
         => \A d \in Caches : d < c => waitRes[d] = "true" /\ synced[d]
  /\ \A c \in Caches :
       waitRes[c] = "false"
         => \A d \in Caches : d > c => startCount[d] = 0 /\ gor[d] = "none" /\ cst[d] = "idle"

\* The wait on the second cache failed after its Start was invoked; the
\* first had synced, the ones after the second were never started.
C18_Witness ==
  /\ NumCaches >= 3
  /\ waitRes[2] = "false"
  /\ startCount[1] = 1
  /\ startCount[2] = 1
  /\ \A d \in Caches : d > 2 => startCount[d] = 0 /\ gor[d] = "none"

====
